---- MODULE Spec2Model ----
(***************************************************************************)
(* A model of the polling file-system watcher of FileSystemPro             *)
(* (filesystem/watcher/__init__.py): the Watcher class with its capture    *)
(* of a root (__get_state__ / __should_watch__ / __get_metadata__), its    *)
(* diff, its bounded change history, get_stats and the poll loop.          *)
(*                                                                         *)
(* Path strings are tuples of one-character strings, so that the string    *)
(* operations of the code (str.replace, str.count, os.path.join,           *)
(* os.path.basename, os.path.splitext, str.lstrip, the "in" substring      *)
(* test) are computed character by character as Python computes them.      *)
(***************************************************************************)
EXTENDS Integers, Sequences, FiniteSets, TLC

\* ------------------------------------------------------------------------
\* Bounds of the model
\* ------------------------------------------------------------------------

\* At most this many files exist at once when a Watcher is constructed.
MaxFiles == 2

\* The largest max_depth argument tried (besides None).
MaxDepthArg == 1

\* ------------------------------------------------------------------------
\* Characters and strings
\* ------------------------------------------------------------------------

\* os.sep on POSIX
Sep == "/"

\* the extension separator of os.path.splitext
ExtSep == "."

\* Python's None for an optional argument is the empty set, a value v is {v}.
None == {}

Some(v) == {v}

ValueOf(opt) == CHOOSE v \in opt : TRUE

\* s[i:] of Python, i counted from 1
Tail_(s, i) == SubSeq(s, i, Len(s))

\* s.startswith(p, i): p occurs in s at position i
OccursAt(s, p, i) == /\ i + Len(p) - 1 <= Len(s)
                     /\ SubSeq(s, i, i + Len(p) - 1) = p

\* "p in s" for two strings: p is a substring of s (the empty string always is)
IsSubstring(p, s) == \E i \in 1..(Len(s) + 1) : OccursAt(s, p, i)

\* s.rfind(c) for a character c, counted from 1; 0 when c does not occur
RFind(s, c) == IF \E i \in 1..Len(s) : s[i] = c
               THEN CHOOSE i \in 1..Len(s) : s[i] = c /\ \A j \in (i+1)..Len(s) : s[j] # c
               ELSE 0

\* s.count(c) for a character c
Count(s, c) == Cardinality({i \in 1..Len(s) : s[i] = c})

RECURSIVE ReplaceFrom(_, _, _)
\* s.replace(old, '') from position i on: the non-overlapping occurrences of
\* old, found left to right, are removed
ReplaceFrom(s, old, i) ==
    IF i > Len(s) THEN <<>>
    ELSE IF OccursAt(s, old, i) THEN ReplaceFrom(s, old, i + Len(old))
    ELSE <<s[i]>> \o ReplaceFrom(s, old, i + 1)

\* s.replace(old, ''); replacing the empty string by the empty string gives s
Replace(s, old) == IF old = <<>> THEN s ELSE ReplaceFrom(s, old, 1)

RECURSIVE LStrip(_, _)
\* s.lstrip(c)
LStrip(s, c) == IF s # <<>> /\ s[1] = c THEN LStrip(Tail(s), c) ELSE s

\* os.path.join(a, b) of posixpath
Join(a, b) == IF b # <<>> /\ b[1] = Sep THEN b
              ELSE IF a = <<>> \/ a[Len(a)] = Sep THEN a \o b
              ELSE a \o <<Sep>> \o b

\* os.path.basename(p) of posixpath: what follows the last separator
BaseName(p) == Tail_(p, RFind(p, Sep) + 1)

\* os.path.splitext(p) of posixpath (genericpath._splitext): the extension
\* starts at the last dot of the last component, unless only dots precede it
\* in that component; <<root, ext>>
SplitExt(p) ==
    LET sepIndex == RFind(p, Sep)
        dotIndex == RFind(p, ExtSep)
    IN  IF /\ dotIndex > sepIndex
           /\ \E k \in (sepIndex + 1)..(dotIndex - 1) : p[k] # ExtSep
        THEN <<SubSeq(p, 1, dotIndex - 1), Tail_(p, dotIndex)>>
        ELSE <<p, <<>>>>

RECURSIVE SplitFrom(_, _, _)
\* the components of a path as the operating system resolves it: empty
\* components (a leading, doubled or trailing separator) do not count
SplitFrom(s, i, cur) ==
    IF i > Len(s) THEN (IF cur = <<>> THEN <<>> ELSE <<cur>>)
    ELSE IF s[i] = Sep
         THEN (IF cur = <<>> THEN <<>> ELSE <<cur>>) \o SplitFrom(s, i + 1, <<>>)
         ELSE SplitFrom(s, i + 1, Append(cur, s[i]))

Components(p) == SplitFrom(p, 1, <<>>)

\* ------------------------------------------------------------------------
\* The file system
\* ------------------------------------------------------------------------

\* names of directories
DirR == <<"r">>
DirX == <<"x">>
DirY == <<"y">>

\* base names of files
ATxt == <<"a", ".", "t", "x", "t">>
BLog == <<"b", ".", "l", "o", "g">>
DSStore == <<".", "D", "S", "_", "S", "t", "o", "r", "e">>
DotTxt == <<".", "t", "x", "t">>

FileNames == {ATxt, BLog, DSStore, DotTxt}

\* The directories of the disk, each the tuple of its components below "/":
\* /r, /r/x, /r/x/y and /r/r
AllDirs == {<<DirR>>, <<DirR, DirX>>, <<DirR, DirX, DirY>>, <<DirR, DirR>>}

DirNames == {DirR, DirX, DirY}

\* A file is a directory and a base name.
AllFiles == [dir : AllDirs, name : FileNames]

\* what os.stat can report for a file: st_mtime and st_size
MTimes == {100, 200}

Sizes == {1, 2}

Meta == [modified : MTimes, size : Sizes]

\* ------------------------------------------------------------------------
\* The state of the program
\* ------------------------------------------------------------------------

VARIABLES
    fs,               \* the disk: the files that exist, each with its metadata
    dirs,             \* the disk: the directories that exist
    roots,            \* self.roots: the list of root path strings
    ignore_patterns,  \* self.ignore_patterns
    file_extensions,  \* self.file_extensions
    max_depth,        \* self.max_depth: None or Some(d)
    history_size,     \* self.history_size
    saved_state,      \* self.saved_state: root -> snapshot (abspath -> record)
    change_history,   \* self.change_history
    handlers,         \* self.handlers: event type -> list of callbacks
    event_queue,      \* self.event_queue
    clock,            \* the wall clock read by datetime.now()
    pc,               \* "new": not constructed; "running": constructed, the
                      \* poll loop alive; "dead": the poll loop's thread ended
                      \* by an exception; "raised": the constructor raised
    seen,             \* the disk as it was at the last capture of the roots
    last,             \* what the last call of diff() saw and returned
    dispatched,       \* the callback invocations of the last poll cycle
    stats,            \* what get_stats() returned, when the step just taken is
                      \* a call of it; NoStats otherwise
    emitted,          \* when a record is kept (on): every event diff() returned
                      \* so far, oldest first, each with the time of its call
    get_changes,      \* the call of get_changes(): where it is and what it
                      \* printed, logged and passed to the notifier
    worker,           \* the thread of the poll loop: the time it slept after
                      \* its last cycle and, where a cycle is taken step by
                      \* step, its position and its local variables
    caller            \* the thread of the user, where a call of it is taken
                      \* step by step: its position and its local variables

config == <<roots, ignore_patterns, file_extensions, max_depth, history_size>>

vars == <<fs, dirs, roots, ignore_patterns, file_extensions, max_depth,
          history_size, saved_state, change_history, handlers, event_queue,
          clock, pc, seen, last, dispatched, stats, emitted, get_changes,
          worker, caller>>

\* ------------------------------------------------------------------------
\* Capture of a root: __should_watch__, __get_metadata__, __get_state__
\* ------------------------------------------------------------------------

\* Watcher.__get_metadata__(abspath), f the file that abspath names
GetMetadata(abspath, f) ==
    [abspath |-> abspath, modified |-> fs[f].modified, size |-> fs[f].size]

\* Watcher.__should_watch__(abspath)
ShouldWatch(abspath) ==
    LET basename == BaseName(abspath)
        ext == LStrip(SplitExt(abspath)[2], ExtSep)
    IN  IF \E pat \in ignore_patterns : IsSubstring(pat, basename) THEN FALSE
        ELSE IF file_extensions # {} /\ ext \notin file_extensions THEN FALSE
        ELSE TRUE

\* the sub-directories a listing of directory node shows
Children(node) == {d \in DirNames : Append(node, d) \in dirs}

\* depth = root_dir.replace(path, '').count(os.sep)
DepthOf(path, root_dir) == Count(Replace(root_dir, path), Sep)

RECURSIVE WalkFrom(_, _, _)
\* The loop body of __get_state__ for the directory os.walk yields as
\* root_dir (the directory node of the disk) and, unless the body pruned
\* dirs, for the sub-directories os.walk then descends into: the pairs
\* <<abspath, file>> of the files that pass __should_watch__.
WalkFrom(path, root_dir, node) ==
    IF max_depth # None /\ DepthOf(path, root_dir) > ValueOf(max_depth)
    THEN {}
    ELSE {e \in {<<Join(root_dir, f.name), f>> : f \in {g \in DOMAIN fs : g.dir = node}} :
              ShouldWatch(e[1])}
         \cup UNION {WalkFrom(path, Join(root_dir, d), Append(node, d)) : d \in Children(node)}

\* what the walk of path finds; os.walk of a path that is no directory
\* yields nothing (its scandir error is ignored)
Found(path) ==
    IF Components(path) \in dirs THEN WalkFrom(path, path, Components(path)) ELSE {}

\* Watcher.__get_state__(path) when every os.stat succeeds
GetState(path) ==
    LET found == Found(path)
    IN  [k \in {e[1] : e \in found} |->
            GetMetadata(k, (CHOOSE e \in found : e[1] = k)[2])]

\* the roots as a set
RootSet == {roots[i] : i \in 1..Len(roots)}

\* {root: self.__get_state__(root) for root in self.roots}
CaptureAll == [r \in RootSet |-> GetState(r)]

\* variant: the constructor saves an empty snapshot for every root
BaselineEmpty == [r \in RootSet |-> <<>>]

\* the snapshots the constructor saves: the capture of every root
Baseline == CaptureAll

\* os.stat raises for some file a capture of the roots reaches (the file
\* vanished after the listing, a dangling link): only possible when there is
\* such a file
StatCanFail == \E r \in RootSet : Found(r) # {}

\* ------------------------------------------------------------------------
\* Construction
\* ------------------------------------------------------------------------

\* the root arguments tried: /r, /r/ (trailing separator), /r/x and /q (no
\* such directory)
RootArgs == {<<Sep, "r">>, <<Sep, "r", Sep>>, <<Sep, "r", Sep, "x">>, <<Sep, "q">>}

IgnoreArgs == {{}, {DSStore}, {<<"l", "o">>}}

ExtArgs == {{}, {<<"t", "x", "t">>}, {<<"t", "x", "t">>, <<"l", "o", "g">>}}

DepthArgs == {None} \cup {Some(d) : d \in 0..MaxDepthArg}

\* the metadata of the files on the disk when a capture is tried
CaptureMeta == {[modified |-> 100, size |-> 1], [modified |-> 200, size |-> 2]}

\* the disks with at most n files
Disks(n, meta) ==
    UNION {[S -> meta] : S \in {T \in SUBSET AllFiles : Cardinality(T) <= n}}

Empty == <<>>

NoCall == [by |-> "none"]

NoStats == <<>>

\* no record of the events returned is kept
NoRecord == [on |-> FALSE, events |-> <<>>]

\* the delay of __monitor_loop__: its default, the thread being started
\* with no argument
MonitorDelay == 5

\* the poll loop between two cycles, not having slept yet
IdleWorker == [pc |-> "idle", slept |-> None, frame |-> <<>>]

\* the user's thread outside any call
IdleCaller == [pc |-> "idle", frame |-> <<>>]

\* get_changes() has not been called
NotCalled == [pc |-> "none"]

\* before Watcher(...) is called: the arguments and the disk are chosen
InitCapture ==
    /\ dirs = AllDirs
    /\ worker = IdleWorker
    /\ caller = IdleCaller
    /\ fs \in Disks(MaxFiles, CaptureMeta)
    /\ roots \in {<<p>> : p \in RootArgs}
    /\ ignore_patterns \in IgnoreArgs
    /\ file_extensions \in ExtArgs
    /\ max_depth \in DepthArgs
    /\ history_size = 2
    /\ saved_state = Empty
    /\ change_history = <<>>
    /\ handlers = [t \in {} |-> <<>>]
    /\ event_queue = <<>>
    /\ clock = 0
    /\ pc = "new"
    /\ seen = Empty
    /\ last = NoCall
    /\ dispatched = <<>>
    /\ stats = NoStats
    /\ emitted = NoRecord
    /\ get_changes = NotCalled

\* Watcher.__init__: the first capture of every root, then the thread starts
Construct ==
    /\ pc = "new"
    /\ saved_state' = Baseline
    /\ seen' = fs
    /\ pc' = "running"
    /\ UNCHANGED <<fs, dirs, config, change_history, handlers, event_queue,
                   clock, last, dispatched, stats, emitted, get_changes,
                   worker, caller>>

\* Watcher.__init__ when os.stat raises in the first capture: the exception
\* leaves the constructor and no Watcher exists
ConstructRaises ==
    /\ pc = "new"
    /\ StatCanFail
    /\ pc' = "raised"
    /\ UNCHANGED <<fs, dirs, config, saved_state, change_history, handlers,
                   event_queue, clock, seen, last, dispatched, stats,
                   emitted, get_changes, worker, caller>>

NextCapture == Construct \/ ConstructRaises

SpecCapture == InitCapture /\ [][NextCapture]_vars

\* ------------------------------------------------------------------------
\* What the claims about a capture speak of
\* ------------------------------------------------------------------------

\* p is a prefix of s
IsPrefix(p, s) == Len(p) <= Len(s) /\ SubSeq(s, 1, Len(p)) = p

\* file f lies in the directory root names, or in a directory below it
Under(f, root) == IsPrefix(Components(root), f.dir)

\* the number of directory levels between root and the directory of file f
LevelsBelow(f, root) == Len(f.dir) - Len(Components(root))

\* the snapshot has a key that names file f
Contains(snapshot, f) ==
    \E k \in DOMAIN snapshot : Components(k) = Append(f.dir, f.name)

\* some ignore pattern is a substring of the base name
Ignored(name) ==
    \E pat \in ignore_patterns :
        \E i \in 1..(Len(name) + 1), j \in 0..Len(name) : SubSeq(name, i, j) = pat

\* the extension of a base name: the text after its last dot; a name whose
\* last dot has only dots before it (.txt, ..txt) has none
NameExtension(name) ==
    LET dots == {i \in 1..Len(name) : name[i] = ExtSep /\ \E k \in 1..(i - 1) : name[k] # ExtSep}
    IN  IF dots = {} \/ \E i \in 1..Len(name) : name[i] = ExtSep /\ \A d \in dots : d < i
        THEN <<>>
        ELSE SubSeq(name, (CHOOSE d \in dots : \A e \in dots : e <= d) + 1, Len(name))

\* the file passes the two filters
PassesFilters(f) ==
    /\ ~Ignored(f.name)
    /\ file_extensions = {} \/ NameExtension(f.name) \in file_extensions

\* the directory of the file is within max_depth levels of the root
WithinDepth(f, root) ==
    max_depth = None \/ LevelsBelow(f, root) <= ValueOf(max_depth)

\* C7: the capture of a root made by the constructor contains a file if and
\* only if the file exists under the root within max_depth levels, no ignore
\* pattern is a substring of its base name and, when file_extensions is not
\* empty, its extension is in file_extensions.
C7_CaptureIsFilteredReachable ==
    pc = "running" =>
        \A r \in RootSet : \A f \in AllFiles :
            Contains(saved_state[r], f) <=>
                /\ f \in DOMAIN fs
                /\ Under(f, r)
                /\ WithinDepth(f, r)
                /\ PassesFilters(f)

\* C8: with max_depth = d the capture of a root contains every filter-passing
\* file whose directory is at most d levels below the root and no file whose
\* directory is deeper; with max_depth = None it contains the filter-passing
\* files of every depth.
C8_DepthLimit ==
    pc = "running" =>
        \A r \in RootSet : \A f \in DOMAIN fs :
            Under(f, r) /\ PassesFilters(f) =>
                /\ WithinDepth(f, r) => Contains(saved_state[r], f)
                /\ ~WithinDepth(f, r) => ~Contains(saved_state[r], f)

\* the text after the last dot of a base name, without the dot; none when
\* the name has no dot
AfterLastDot(name) ==
    IF RFind(name, ExtSep) = 0 THEN <<>> ELSE Tail_(name, RFind(name, ExtSep) + 1)

\* C22: the extension tested against file_extensions is the text after the
\* last '.' of the base name, for every base name: a file under a root (no
\* depth limit, no ignore pattern in its name) is in the capture if and only
\* if file_extensions is empty or contains that text; so '.txt' is captured
\* when 'txt' is allowed.
C22_ExtensionIsTextAfterLastDot ==
    pc = "running" /\ max_depth = None =>
        \A r \in RootSet : \A f \in DOMAIN fs :
            Under(f, r) /\ ~Ignored(f.name) =>
                (Contains(saved_state[r], f) <=>
                    file_extensions = {} \/ AfterLastDot(f.name) \in file_extensions)

RECURSIVE RootDirOf(_, _)
\* the root_dir os.walk(path) yields for the directory that lies the
\* components below (in this order) under path: os.walk joins each name to
\* the path of the directory above
RootDirOf(path, below) ==
    IF below = <<>> THEN path ELSE RootDirOf(Join(path, Head(below)), Tail(below))

\* C23: the depth __get_state__ computes for a directory is the number of
\* directory levels between the root and the directory (root 0, a direct
\* child 1, ...), whatever the spelling of the root: with a trailing
\* separator, or with its string occurring again in the path of a
\* descendant.
C23_DepthIsLevelsBelowRoot ==
    pc = "running" =>
        \A r \in RootSet : \A d \in dirs :
            IsPrefix(Components(r), d) =>
                LET below == SubSeq(d, Len(Components(r)) + 1, Len(d))
                IN  DepthOf(r, RootDirOf(r, below)) = Len(below)

\* ------------------------------------------------------------------------
\* diff, the change history, get_stats
\* ------------------------------------------------------------------------

\* the orders in which a loop over a set (or over the keys of a snapshot)
\* may visit its members: every sequence that lists each member once
Orders(S) == {s \in [1..Cardinality(S) -> S] : \A x \in S : \E i \in DOMAIN s : s[i] = x}

\* i = record.copy(); i["change"] = kind
WithChange(record, kind) ==
    [abspath |-> record.abspath, modified |-> record.modified,
     size |-> record.size, change |-> kind]

\* variant: a path counts as changed when its size differs, too
ChangedPathsBySize(saved, current) ==
    {k \in DOMAIN current :
        k \in DOMAIN saved /\ (current[k].modified # saved[k].modified
                                  \/ current[k].size # saved[k].size)}

\* variant: a path counts as changed only when its modified time grew
ChangedPathsNewer(saved, current) ==
    {k \in DOMAIN current : k \in DOMAIN saved /\ current[k].modified > saved[k].modified}

\* changed_paths: the keys of current_state also in saved_state whose
\* "modified" differs
ChangedPaths(saved, current) ==
    {k \in DOMAIN current : k \in DOMAIN saved /\ current[k].modified # saved[k].modified}

\* variant: every current path counts as created
CreatedPathsAll(saved, current) == DOMAIN current

\* created = current_set - stored_set
CreatedPaths(saved, current) == DOMAIN current \ DOMAIN saved

\* variant: every saved path counts as removed
RemovedPathsAll(saved, current) == DOMAIN saved

\* removed = stored_set - current_set
RemovedPaths(saved, current) == DOMAIN saved \ DOMAIN current

\* variant: the removed paths are left out of the results
RootResultsNoRemoved(saved, current) ==
    {[i \in 1..Len(u) |-> WithChange(current[u[i]], "updated")]
       \o [i \in 1..Len(c) |-> WithChange(current[c[i]], "created")] :
         u \in Orders(ChangedPaths(saved, current)),
         c \in Orders(CreatedPaths(saved, current))}

\* the lists "results" one iteration of the loop over the roots can build:
\* the updated events, then the created, then the removed, each group in any
\* order
RootResults(saved, current) ==
    {[i \in 1..Len(u) |-> WithChange(current[u[i]], "updated")]
       \o [i \in 1..Len(c) |-> WithChange(current[c[i]], "created")]
       \o [i \in 1..Len(r) |-> WithChange(saved[r[i]], "removed")] :
         u \in Orders(ChangedPaths(saved, current)),
         c \in Orders(CreatedPaths(saved, current)),
         r \in Orders(RemovedPaths(saved, current))}

RECURSIVE DiffRootsSkipEmpty(_, _, _)
\* variant: a root whose capture is empty gets no diff in this cycle
DiffRootsSkipEmpty(i, saved, current_states) ==
    IF i > Len(roots) THEN {<<>>}
    ELSE {<<res>> \o rest :
            res \in IF DOMAIN current_states[roots[i]] = {} THEN {<<>>}
                    ELSE RootResults(saved[roots[i]], current_states[roots[i]]),
            rest \in DiffRootsSkipEmpty(i + 1, [saved EXCEPT ![roots[i]] = current_states[roots[i]]],
                                        current_states)}

RECURSIVE DiffRootsAgainstFirst(_, _, _)
\* variant: every root's capture is compared with the snapshot saved for
\* the first root
DiffRootsAgainstFirst(i, saved, current_states) ==
    IF i > Len(roots) THEN {<<>>}
    ELSE {<<res>> \o rest :
            res \in RootResults(saved[roots[1]], current_states[roots[i]]),
            rest \in DiffRootsAgainstFirst(i + 1, saved, current_states)}

RECURSIVE DiffRoots(_, _, _)
\* the loop "for root in self.roots" from the i-th root on, saved being
\* self.saved_state as the earlier iterations left it: the possible lists of
\* the "results" of the iterations
DiffRoots(i, saved, current_states) ==
    IF i > Len(roots) THEN {<<>>}
    ELSE {<<res>> \o rest :
            res \in RootResults(saved[roots[i]], current_states[roots[i]]),
            rest \in DiffRoots(i + 1, [saved EXCEPT ![roots[i]] = current_states[roots[i]]],
                               current_states)}

RECURSIVE Flatten(_)
\* all_changes, from the results of the iterations (all_changes.extend)
Flatten(lists) == IF lists = <<>> THEN <<>> ELSE Head(lists) \o Flatten(Tail(lists))

\* change_copy = change.copy(); change_copy['timestamp'] = now
WithTimestamp(change, now) ==
    [abspath |-> change.abspath, modified |-> change.modified,
     size |-> change.size, change |-> change.change, timestamp |-> now]

\* variant: when the list is full the new entry is dropped, not the oldest
PushDropNewest(history, entry) ==
    LET appended == Append(history, entry)
    IN  IF Len(appended) > history_size THEN SubSeq(appended, 1, Len(appended) - 1)
        ELSE appended

\* variant: the oldest entry is dropped one append too late
PushLate(history, entry) ==
    LET appended == Append(history, entry)
    IN  IF Len(appended) > history_size + 1 THEN Tail(appended) ELSE appended

\* self.change_history.append(change_copy), then pop(0) when the list is
\* longer than history_size
Push(history, entry) ==
    LET appended == Append(history, entry)
    IN  IF Len(appended) > history_size THEN Tail(appended) ELSE appended

RECURSIVE UpdateHistory(_, _, _)
\* the loop "for change in all_changes" that updates the history
UpdateHistory(history, changes, now) ==
    IF changes = <<>> THEN history
    ELSE UpdateHistory(Push(history, WithTimestamp(Head(changes), now)), Tail(changes), now)

\* the types register_handler is called with
EventTypes == {"created", "updated", "removed", "all", "other"}

\* the event_handler the watcher is constructed with
EventHandler == "event_handler"

\* variant: the constructor registers no callback
ConstructorHandlersOmitted(event_handler) == [t \in EventTypes |-> <<>>]

\* self.handlers as the constructor leaves it, before it starts the thread:
\* empty lists, and the event_handler, if one is given, registered for 'all'
ConstructorHandlers(event_handler) ==
    [t \in EventTypes |->
        IF t = "all" /\ event_handler # None THEN <<ValueOf(event_handler)>> ELSE <<>>]

\* the callbacks a user registers: on_change returns, faulty raises an
\* Exception whenever it is called
Callbacks == {"on_change", "faulty"}

\* cb(change) raises an Exception
Raises(cb) == cb = "faulty"

\* variant: the callbacks registered under the string 'other' are taken
\* for callbacks of 'all'
HandlersForWithOther(t) ==
    IF t = "all" THEN handlers["all"] \o handlers["other"] ELSE handlers[t]

\* self.handlers.get(t, [])
HandlersFor(t) == handlers[t]

\* variant: the loop over the callbacks ends with the first one that raises
InvokeUntilRaise(cbs, change) ==
    LET bad == {i \in 1..Len(cbs) : Raises(cbs[i])}
        stop == IF bad = {} THEN Len(cbs) ELSE CHOOSE i \in bad : \A j \in bad : i <= j
    IN  [i \in 1..stop |-> [cb |-> cbs[i], change |-> change, raised |-> Raises(cbs[i])]]

\* the loop "for cb in ...: try: cb(change) except Exception: pass" over
\* the list cbs: every callback is invoked, whether an earlier one raised
\* or not
Invoke(cbs, change) ==
    [i \in 1..Len(cbs) |-> [cb |-> cbs[i], change |-> change, raised |-> Raises(cbs[i])]]

RECURSIVE DispatchAllFirst(_)
\* variant: per change the callbacks of 'all' come before those of its kind
DispatchAllFirst(changes) ==
    IF changes = <<>> THEN <<>>
    ELSE LET change == Head(changes)
         IN  Invoke(HandlersFor("all"), change)
             \o Invoke(HandlersFor(change.change), change)
             \o DispatchAllFirst(Tail(changes))

RECURSIVE Dispatch(_)
\* the loop "for change in changes" of __monitor_loop__: per change the
\* callbacks of its own kind, then those of 'all', as they are invoked
Dispatch(changes) ==
    IF changes = <<>> THEN <<>>
    ELSE LET change == Head(changes)
         IN  Invoke(HandlersFor(change.change), change)
             \o Invoke(HandlersFor("all"), change)
             \o Dispatch(Tail(changes))

\* variant: the count of 'created' is the count of all entries
StatsCreatedAll(history) ==
    [t \in {"created", "updated", "removed"} |->
        IF t = "created" THEN Len(history)
        ELSE Cardinality({i \in 1..Len(history) : history[i].change = t})]

\* Watcher.get_stats()
Stats(history) ==
    IF history = <<>> THEN [created |-> 0, updated |-> 0, removed |-> 0]
    ELSE [t \in {"created", "updated", "removed"} |->
            Cardinality({i \in 1..Len(history) : history[i].change = t})]

\* ------------------------------------------------------------------------
\* The watcher at work
\* ------------------------------------------------------------------------

\* diff() is called at most this many times; the disk changes no more once
\* they are used up
MaxClock == 2

\* the files the disk of a running watcher may hold: /r/a.txt and /r/x/b.log
FileA == [dir |-> <<DirR>>, name |-> ATxt]

FileB == [dir |-> <<DirR, DirX>>, name |-> BLog]

WatchedFiles == {FileA, FileB}

\* the metadata a write may leave: /r/a.txt is rewritten with a new modified
\* time or with the same modified time and another size
WriteMeta(f) ==
    IF f = FileA
    THEN {[modified |-> 100, size |-> 1], [modified |-> 200, size |-> 1],
          [modified |-> 100, size |-> 2]}
    ELSE {[modified |-> 100, size |-> 1]}

\* the disks of a running watcher
WatchedDisks ==
    {d \in UNION {[S -> Meta] : S \in SUBSET WatchedFiles} :
        \A f \in DOMAIN d : d[f] \in WriteMeta(f)}

\* the arguments a watcher is constructed with: the one root /r and a
\* history of one entry, or /r and the directory /r/x below it and a history
\* of two
WatcherArgs ==
    {[roots |-> <<<<Sep, "r">>>>, history_size |-> 1],
     [roots |-> <<<<Sep, "r">>, <<Sep, "r", Sep, "x">>>>, history_size |-> 2]}

\* the record of the events returned, after a diff() at time now returned
\* changes
Record(record, changes, now) ==
    IF record.on
    THEN [record EXCEPT !.events = @ \o [j \in 1..Len(changes) |-> WithTimestamp(changes[j], now)]]
    ELSE record

\* variant: the saved snapshots are not replaced by the captured ones
DiffCallKeepSaved(by, current_states, results) ==
    LET now == clock
        all_changes == Flatten(results)
    IN  /\ saved_state' = saved_state
        /\ change_history' = UpdateHistory(change_history, all_changes, now)
        /\ emitted' = Record(emitted, all_changes, now)
        /\ clock' = clock + 1
        /\ seen' = fs
        /\ last' = [by |-> by, prev |-> saved_state, cur |-> current_states,
                    results |-> results, changes |-> all_changes, now |-> now,
                    before |-> change_history, disk |-> fs, prev_disk |-> seen]

\* Watcher.diff(), called by the poll loop or by the user, with the captures
\* of the roots it made and the results of its loop over the roots: the
\* state it leaves, and the record of the call (changes is what it returns)
DiffCall(by, current_states, results) ==
    LET now == clock
        all_changes == Flatten(results)
    IN  /\ saved_state' = current_states
        /\ change_history' = UpdateHistory(change_history, all_changes, now)
        /\ emitted' = Record(emitted, all_changes, now)
        /\ clock' = clock + 1
        /\ seen' = fs
        /\ last' = [by |-> by, prev |-> saved_state, cur |-> current_states,
                    results |-> results, changes |-> all_changes, now |-> now,
                    before |-> change_history, disk |-> fs, prev_disk |-> seen]

\* the state after Watcher(...) returned
Init ==
    /\ dirs = AllDirs
    /\ worker = IdleWorker
    /\ caller = IdleCaller
    /\ fs \in WatchedDisks
    /\ \E args \in WatcherArgs :
        /\ roots = args.roots
        /\ history_size = args.history_size
    /\ ignore_patterns = {}
    /\ file_extensions = {}
    /\ max_depth = None
    /\ saved_state = Baseline
    /\ change_history = <<>>
    /\ handlers = ConstructorHandlers(Some(EventHandler))
    /\ event_queue = <<>>
    /\ clock = 0
    /\ pc = "running"
    /\ seen = fs
    /\ last = NoCall
    /\ dispatched = <<>>
    /\ stats = NoStats
    /\ emitted = NoRecord
    /\ get_changes = NotCalled

\* a file is written: created, or rewritten with other metadata
WriteFile(f, meta) ==
    /\ clock < MaxClock
    /\ f.dir \in dirs
    /\ IF f \in DOMAIN fs THEN fs[f] # meta ELSE TRUE
    /\ fs' = [g \in DOMAIN fs \cup {f} |-> IF g = f THEN meta ELSE fs[g]]
    /\ stats' = NoStats
    /\ UNCHANGED <<dirs, config, saved_state, change_history, handlers,
                   event_queue, clock, pc, seen, last, dispatched, emitted,
                   get_changes, worker, caller>>

\* a file is deleted
DeleteFile(f) ==
    /\ clock < MaxClock
    /\ f \in DOMAIN fs
    /\ fs' = [g \in DOMAIN fs \ {f} |-> fs[g]]
    /\ stats' = NoStats
    /\ UNCHANGED <<dirs, config, saved_state, change_history, handlers,
                   event_queue, clock, pc, seen, last, dispatched, emitted,
                   get_changes, worker, caller>>

\* one iteration of __monitor_loop__: diff, then per change the put on the
\* queue and the callbacks, then the sleep
Poll ==
    /\ pc = "running"
    /\ clock < MaxClock
    /\ LET current_states == CaptureAll
       IN  \E results \in DiffRoots(1, saved_state, current_states) :
               /\ DiffCall("poll", current_states, results)
               /\ event_queue' = event_queue \o Flatten(results)
               /\ dispatched' = Dispatch(Flatten(results))
    /\ worker' = [worker EXCEPT !.slept = Some(MonitorDelay)]
    /\ stats' = NoStats
    /\ UNCHANGED <<fs, dirs, config, handlers, pc, get_changes, caller>>

\* one iteration of __monitor_loop__ in which os.stat raises inside diff:
\* the exception leaves the loop and the thread ends
PollRaises ==
    /\ pc = "running"
    /\ StatCanFail
    /\ pc' = "dead"
    /\ stats' = NoStats
    /\ UNCHANGED <<fs, dirs, config, saved_state, change_history, handlers,
                   event_queue, clock, seen, last, dispatched, emitted,
                   get_changes, worker, caller>>

\* the user calls diff()
UserDiff ==
    /\ pc \in {"running", "dead"}
    /\ clock < MaxClock
    /\ LET current_states == CaptureAll
       IN  \E results \in DiffRoots(1, saved_state, current_states) :
               DiffCall("user", current_states, results)
    /\ stats' = NoStats
    /\ UNCHANGED <<fs, dirs, config, handlers, event_queue, pc, dispatched,
                   get_changes, worker, caller>>

\* the user calls get_stats()
GetStats ==
    /\ pc \in {"running", "dead"}
    /\ stats' = Stats(change_history)
    /\ UNCHANGED <<fs, dirs, config, saved_state, change_history, handlers,
                   event_queue, clock, pc, seen, last, dispatched, emitted,
                   get_changes, worker, caller>>

Next ==
    \/ \E f \in WatchedFiles : \E meta \in WriteMeta(f) : WriteFile(f, meta)
    \/ \E f \in WatchedFiles : DeleteFile(f)
    \/ Poll
    \/ PollRaises
    \/ UserDiff
    \/ GetStats

Spec == Init /\ [][Next]_vars

\* ------------------------------------------------------------------------
\* What the claims about diff speak of
\* ------------------------------------------------------------------------

\* diff() has been called
Called == last.by # "none"

\* the positions of the list of roots
RootIndex == 1..Len(roots)

\* the snapshot saved for the i-th root when the last diff() began
SavedOf(i) == last.prev[roots[i]]

\* the snapshot the last diff() captured for the i-th root
CurrentOf(i) == last.cur[roots[i]]

\* the events the last diff() produced for the i-th root
EventsOf(i) == last.results[i]

\* the positions of the events of one kind for one path in a list of events
EventsAt(events, kind, path) ==
    {j \in 1..Len(events) : events[j].change = kind /\ events[j].abspath = path}

\* the paths a list of events classifies as kind
PathsOf(events, kind) ==
    {events[j].abspath : j \in {n \in 1..Len(events) : events[n].change = kind}}

Kinds == {"updated", "created", "removed"}

\* the event carries the record: its path, modified time and size
Carries(event, record) ==
    /\ event.abspath = record.abspath
    /\ event.modified = record.modified
    /\ event.size = record.size

\* the paths present in both snapshots with equal modified time
Unmodified(S1, S2) ==
    {k \in DOMAIN S1 \cap DOMAIN S2 : S1[k].modified = S2[k].modified}

\* C1: for the saved snapshot S1 and the captured snapshot S2 of a root, the
\* sets of paths diff classifies as updated, created and removed are pairwise
\* disjoint and their union is (keys(S1) union keys(S2)) minus the paths
\* present in both with equal modified time.
C1_ClassesPartitionTheChanges ==
    Called =>
        \A i \in RootIndex :
            LET U == PathsOf(EventsOf(i), "updated")
                C == PathsOf(EventsOf(i), "created")
                R == PathsOf(EventsOf(i), "removed")
            IN  /\ U \cap C = {}
                /\ U \cap R = {}
                /\ C \cap R = {}
                /\ \A j \in 1..Len(EventsOf(i)) : EventsOf(i)[j].change \in Kinds
                /\ U \cup C \cup R =
                       (DOMAIN SavedOf(i) \cup DOMAIN CurrentOf(i))
                           \ Unmodified(SavedOf(i), CurrentOf(i))

\* a diff that reports for one root an updated and a removed path, and so
\* leaves no path of the two snapshots unclassified
C1_Witness ==
    /\ Called
    /\ \E i \in RootIndex :
           /\ PathsOf(EventsOf(i), "updated") # {}
           /\ PathsOf(EventsOf(i), "removed") # {}
           /\ PathsOf(EventsOf(i), "created") = {}
           /\ Len(EventsOf(i)) = 2

C2_WitnessSizeOnly ==
    /\ Called
    /\ \E i \in RootIndex :
           \E k \in DOMAIN SavedOf(i) \cap DOMAIN CurrentOf(i) :
               /\ SavedOf(i)[k].modified = CurrentOf(i)[k].modified
               /\ SavedOf(i)[k].size # CurrentOf(i)[k].size
    /\ last.changes = <<>>

\* C3: every path in the current snapshot of a root and not in the saved one
\* gets exactly one 'created' event, which carries the current record; no
\* other path gets a 'created' event.
C3_CreatedExactlyTheNewPaths ==
    Called =>
        \A i \in RootIndex :
            /\ \A k \in DOMAIN CurrentOf(i) \ DOMAIN SavedOf(i) :
                   /\ Cardinality(EventsAt(EventsOf(i), "created", k)) = 1
                   /\ \A j \in EventsAt(EventsOf(i), "created", k) :
                          Carries(EventsOf(i)[j], CurrentOf(i)[k])
            /\ PathsOf(EventsOf(i), "created")
                   \subseteq DOMAIN CurrentOf(i) \ DOMAIN SavedOf(i)

\* a diff that reports a new file as created, beside a file that stayed
C3_Witness ==
    /\ Called
    /\ \E i \in RootIndex :
           /\ PathsOf(EventsOf(i), "created") # {}
           /\ DOMAIN CurrentOf(i) \cap DOMAIN SavedOf(i) # {}

\* C4: every path in the saved snapshot of a root and not in the current one
\* gets exactly one 'removed' event, which carries the saved (last known)
\* record; no other path gets a 'removed' event.
C4_RemovedExactlyTheGonePaths ==
    Called =>
        \A i \in RootIndex :
            /\ \A k \in DOMAIN SavedOf(i) \ DOMAIN CurrentOf(i) :
                   /\ Cardinality(EventsAt(EventsOf(i), "removed", k)) = 1
                   /\ \A j \in EventsAt(EventsOf(i), "removed", k) :
                          Carries(EventsOf(i)[j], SavedOf(i)[k])
            /\ PathsOf(EventsOf(i), "removed")
                   \subseteq DOMAIN SavedOf(i) \ DOMAIN CurrentOf(i)

\* a diff that reports a deleted file as removed, beside a file that stayed
C4_Witness ==
    /\ Called
    /\ \E i \in RootIndex :
           /\ PathsOf(EventsOf(i), "removed") # {}
           /\ DOMAIN CurrentOf(i) \cap DOMAIN SavedOf(i) # {}

\* C5: when the disk is as it was at the previous capture, the captured
\* snapshots equal the saved ones; and when they do, diff returns the empty
\* list, leaves the history as it was, and the poll loop invokes no callback.
C5_NoChangeNoEvent ==
    Called =>
        /\ last.disk = last.prev_disk => last.cur = last.prev
        /\ last.cur = last.prev =>
               /\ last.changes = <<>>
               /\ change_history = last.before
               /\ last.by = "poll" => dispatched = <<>>

\* a second diff in a row, with no change of the disk since the first, which
\* had reported changes that are still in the history
C5_Witness ==
    /\ Called
    /\ last.now > 0
    /\ last.by = "poll"
    /\ last.disk = last.prev_disk
    /\ last.disk # <<>>
    /\ change_history # <<>>

\* C6: the paths diff classifies as created with saved = S1 and current = S2
\* are those a diff with saved = S2 and current = S1 classifies as removed,
\* and the other way round; the updated paths of the two diffs are the same.
C6_CreatedRemovedSymmetry ==
    Called =>
        \A i \in RootIndex :
            \A back \in RootResults(CurrentOf(i), SavedOf(i)) :
                /\ PathsOf(EventsOf(i), "created") = PathsOf(back, "removed")
                /\ PathsOf(EventsOf(i), "removed") = PathsOf(back, "created")
                /\ PathsOf(EventsOf(i), "updated") = PathsOf(back, "updated")

\* a diff that reports for one root a created and a removed path
C6_Witness ==
    /\ Called
    /\ \E i \in RootIndex :
           /\ PathsOf(EventsOf(i), "created") # {}
           /\ PathsOf(EventsOf(i), "removed") # {}
           /\ RootResults(CurrentOf(i), SavedOf(i)) # {}

\* C9: the history never holds more than history_size entries, and the
\* counts get_stats returns never sum to more than history_size.
C9_HistoryBounded ==
    /\ Len(change_history) <= history_size
    /\ stats # NoStats =>
           stats["created"] + stats["updated"] + stats["removed"] <= history_size

\* get_stats is called after a single cycle detected more changes than
\* history_size
C9_Witness ==
    /\ Called
    /\ last.by = "poll"
    /\ Len(last.changes) > history_size
    /\ stats # NoStats
    /\ stats["created"] + stats["updated"] + stats["removed"] = history_size

\* the entries of kind t retained in the history
Retained(t) == {j \in 1..Len(change_history) : change_history[j].change = t}

\* C10: get_stats returns a mapping with exactly the keys created, updated
\* and removed; each value is the number of entries of that kind now in the
\* history; the three sum to the length of the history, so an entry evicted
\* from the history is counted no more.
C10_StatsCountRetained ==
    stats # NoStats =>
        /\ DOMAIN stats = {"created", "updated", "removed"}
        /\ \A t \in DOMAIN stats : stats[t] = Cardinality(Retained(t))
        /\ stats["created"] + stats["updated"] + stats["removed"] = Len(change_history)
        /\ Called =>
               stats["created"] + stats["updated"] + stats["removed"]
                   <= Len(last.before) + Len(last.changes)

\* get_stats is called after the last diff evicted entries of the history:
\* the counts sum to less than the number of events appended so far
C10_Witness ==
    /\ stats # NoStats
    /\ Called
    /\ last.before # <<>>
    /\ Len(last.before) + Len(last.changes) > history_size
    /\ stats["created"] + stats["updated"] + stats["removed"]
           < Len(last.before) + Len(last.changes)
    /\ stats["removed"] > 0

\* ------------------------------------------------------------------------
\* Registration of callbacks and their dispatch by the poll loop
\* ------------------------------------------------------------------------

\* register_handler is called at most this many times, the call of the
\* constructor for event_handler included
MaxHandlers == 3

\* the event types callbacks are registered for
RegisterTypes == {"created", "all"}

RECURSIVE SumLen(_, _)
\* the number of callbacks in the lists of the given types
SumLen(h, types) ==
    IF types = {} THEN 0
    ELSE LET t == CHOOSE x \in types : TRUE
         IN  Len(h[t]) + SumLen(h, types \ {t})

\* the number of registered callbacks
NumHandlers == SumLen(handlers, EventTypes)

\* the metadata of a file written once
FirstMeta == [modified |-> 100, size |-> 1]

\* the state after Watcher('/r') or Watcher('/r', event_handler=...) returned
InitDispatch ==
    /\ dirs = AllDirs
    /\ worker = IdleWorker
    /\ caller = IdleCaller
    /\ fs \in {d \in WatchedDisks : \A f \in DOMAIN d : d[f] = FirstMeta}
    /\ roots = <<<<Sep, "r">>>>
    /\ history_size = 2
    /\ ignore_patterns = {}
    /\ file_extensions = {}
    /\ max_depth = None
    /\ saved_state = Baseline
    /\ change_history = <<>>
    /\ \E event_handler \in {None, Some(EventHandler)} :
           handlers = ConstructorHandlers(event_handler)
    /\ event_queue = <<>>
    /\ clock = 0
    /\ pc = "running"
    /\ seen = fs
    /\ last = NoCall
    /\ dispatched = <<>>
    /\ stats = NoStats
    /\ emitted = NoRecord
    /\ get_changes = NotCalled

\* Watcher.register_handler(event_type, callback)
RegisterHandler(event_type, callback) ==
    /\ pc \in {"running", "dead"}
    /\ NumHandlers < MaxHandlers
    /\ handlers' = [handlers EXCEPT ![event_type] = Append(@, callback)]
    /\ stats' = NoStats
    /\ UNCHANGED <<fs, dirs, config, saved_state, change_history,
                   event_queue, clock, pc, seen, last, dispatched, emitted,
                   get_changes, worker, caller>>

\* registrations, changes of the disk and poll cycles; no os.stat fails here
NextDispatch ==
    \/ \E t \in RegisterTypes : \E cb \in Callbacks : RegisterHandler(t, cb)
    \/ \E f \in WatchedFiles : WriteFile(f, FirstMeta)
    \/ \E f \in WatchedFiles : DeleteFile(f)
    \/ Poll

SpecDispatch == InitDispatch /\ [][NextDispatch]_vars

\* the step is one iteration of the poll loop in which diff returned
PollStep == clock' # clock /\ last'.by = "poll"

\* the callbacks invoked for the j-th event the last diff returned: first
\* those registered for its kind, then those registered for 'all'
CallbacksOf(j) == handlers[last.changes[j].change] \o handlers["all"]

RECURSIVE InvokedBefore(_)
\* the number of invocations for the events before the j-th
InvokedBefore(j) ==
    IF j = 1 THEN 0 ELSE InvokedBefore(j - 1) + Len(CallbacksOf(j - 1))

\* the invocations of the last poll cycle are, event after event in the
\* order diff returned them, the callbacks of the event's kind in the order
\* of their registration followed by those of 'all' in the order of theirs
DispatchedInOrder ==
    /\ Len(dispatched) = InvokedBefore(Len(last.changes) + 1)
    /\ \A j \in 1..Len(last.changes) :
           \A i \in 1..Len(CallbacksOf(j)) :
               /\ dispatched[InvokedBefore(j) + i].cb = CallbacksOf(j)[i]
               /\ dispatched[InvokedBefore(j) + i].change = last.changes[j]

\* C11: for each event the poll loop dispatches, the callbacks registered
\* for the event's kind are invoked first, in the order of registration, then
\* the callbacks registered for 'all', in the order of registration; all
\* the invocations for one event come before those for the next event.
C11_DispatchOrder == [][PollStep => DispatchedInOrder']_vars

\* a poll cycle with two events of a kind with two callbacks, and a callback
\* registered for 'all': six invocations
C11_Witness ==
    /\ Called
    /\ last.by = "poll"
    /\ Len(last.changes) = 2
    /\ Len(handlers[last.changes[1].change]) = 2
    /\ handlers[last.changes[1].change][1] # handlers[last.changes[1].change][2]
    /\ last.changes[2].change = last.changes[1].change
    /\ Len(handlers["all"]) = 1
    /\ Len(dispatched) = 6

\* some callback raised in the last poll cycle
SomeRaised == \E k \in 1..Len(dispatched) : dispatched[k].raised

\* the number of invocations of callback cb for the event in the last cycle
TimesInvoked(cb, event) ==
    Cardinality({k \in 1..Len(dispatched) :
                    dispatched[k].cb = cb /\ dispatched[k].change = event})

\* the number of times cb is registered for the type t
TimesRegistered(cb, t) == Cardinality({i \in 1..Len(handlers[t]) : handlers[t][i] = cb})

\* every event of the last cycle went to all the callbacks of its kind and
\* of 'all', each as often as it is registered
AllInvoked ==
    \A j \in 1..Len(last.changes) :
        \A cb \in Callbacks \cup {EventHandler} :
            TimesInvoked(cb, last.changes[j]) =
                TimesRegistered(cb, last.changes[j].change) + TimesRegistered(cb, "all")

\* C12: when a callback raises an exception in a poll cycle, every other
\* callback of that event (of its kind and of 'all') is still invoked, every
\* later event of the cycle still goes to all of its callbacks, and the poll
\* loop goes on.
C12_CallbackFailureIsContained ==
    [][PollStep /\ SomeRaised' => AllInvoked' /\ pc' = "running"]_vars

\* a poll cycle with two events in which the first callback invoked raised
\* and a callback that does not raise was invoked after it, for both events
C12_Witness ==
    /\ Called
    /\ last.by = "poll"
    /\ Len(last.changes) = 2
    /\ Len(dispatched) >= 4
    /\ dispatched[1].raised
    /\ ~dispatched[2].raised
    /\ \E k \in 3..Len(dispatched) :
           dispatched[k].change = last.changes[2] /\ ~dispatched[k].raised
    /\ pc = "running"

\* the state after Watcher('/r', event_handler=...) returned, /r holding at
\* most the file a.txt
InitKinds ==
    /\ dirs = AllDirs
    /\ worker = IdleWorker
    /\ caller = IdleCaller
    /\ fs \in {d \in WatchedDisks : DOMAIN d \subseteq {FileA}}
    /\ roots = <<<<Sep, "r">>>>
    /\ history_size = 2
    /\ ignore_patterns = {}
    /\ file_extensions = {}
    /\ max_depth = None
    /\ saved_state = Baseline
    /\ change_history = <<>>
    /\ handlers = ConstructorHandlers(Some(EventHandler))
    /\ event_queue = <<>>
    /\ clock = 0
    /\ pc = "running"
    /\ seen = fs
    /\ last = NoCall
    /\ dispatched = <<>>
    /\ stats = NoStats
    /\ emitted = NoRecord
    /\ get_changes = NotCalled

\* the callback on_change registered under any string - a kind, 'all' or
\* another one -, a.txt written, rewritten and deleted, and poll cycles
NextKinds ==
    \/ \E t \in EventTypes : RegisterHandler(t, "on_change")
    \/ \E meta \in WriteMeta(FileA) : WriteFile(FileA, meta)
    \/ DeleteFile(FileA)
    \/ Poll

SpecKinds == InitKinds /\ [][NextKinds]_vars

\* the invocations of the last poll cycle that are calls of cb
InvocationsOf(cb) == {k \in 1..Len(dispatched) : dispatched[k].cb = cb}

\* the types cb is registered under
TypesOf(cb) == {t \in EventTypes : TimesRegistered(cb, t) > 0}

\* the last poll cycle invoked every callback as its registrations say: one
\* call per event and registration under the kind of the event or under
\* 'all', and no other call; so a callback registered under one kind only
\* is called with events of that kind only, one registered only under a
\* string that is no kind and not 'all' is not called
InvokedAsRegistered ==
    /\ \A cb \in Callbacks \cup {EventHandler} :
           /\ \A j \in 1..Len(last.changes) :
                  TimesInvoked(cb, last.changes[j]) =
                      TimesRegistered(cb, last.changes[j].change)
                          + TimesRegistered(cb, "all")
           /\ \A k \in InvocationsOf(cb) :
                  /\ \E j \in 1..Len(last.changes) : dispatched[k].change = last.changes[j]
                  /\ TypesOf(cb) \cap {dispatched[k].change.change, "all"} # {}
           /\ TypesOf(cb) \subseteq {"other"} => InvocationsOf(cb) = {}
    /\ pc = "running"

\* C28: in a poll cycle a callback registered under a kind K of 'created',
\* 'updated', 'removed' is invoked only with the events of kind K, once per
\* such event (and registration); a callback registered under 'all' is
\* invoked once for every event; a callback registered under any other
\* string is never invoked, and its registration raised no error.
C28_InvokedForItsKindOnly == [][PollStep => InvokedAsRegistered']_vars

\* a poll cycle with an 'updated' event while on_change is registered under
\* 'created' and under another string only: the event_handler of 'all' is
\* the only callback invoked
C28_Witness ==
    /\ Called
    /\ last.by = "poll"
    /\ Len(last.changes) = 1
    /\ last.changes[1].change = "updated"
    /\ TypesOf("on_change") = {"created", "other"}
    /\ Len(dispatched) = 1
    /\ dispatched[1].cb = EventHandler

\* the last poll cycle invoked, for each of its events, the event_handler
\* of the constructor and every callback registered under the kind of the
\* event or under 'all'
EveryHandlerInvoked ==
    \A j \in 1..Len(last.changes) :
        /\ TimesInvoked(EventHandler, last.changes[j]) >= 1
        /\ \A t \in {last.changes[j].change, "all"} :
               \A i \in 1..Len(handlers[t]) :
                   TimesInvoked(handlers[t][i], last.changes[j]) >= 1

\* C29: the event_handler passed to the constructor is registered under
\* 'all' before the thread starts, so every poll cycle, the first one
\* included, invokes it for every event; and a poll cycle invokes, for every
\* matching event, every callback register_handler added before the cycle
\* began.
C29_HandlersSeeEveryCycle ==
    [][PollStep => handlers' = handlers /\ EveryHandlerInvoked']_vars

\* the first poll cycle of a watcher, with an event: the event_handler is
\* invoked, and so is on_change, registered for the kind of the event after
\* the constructor returned
C29_Witness ==
    /\ Called
    /\ last.by = "poll"
    /\ last.now = 0
    /\ Len(last.changes) = 1
    /\ handlers[last.changes[1].change] = <<"on_change">>
    /\ handlers["all"] = <<EventHandler>>
    /\ Len(dispatched) = 2
    /\ dispatched[1].cb = "on_change"
    /\ dispatched[2].cb = EventHandler

\* ------------------------------------------------------------------------
\* Failures of os.stat
\* ------------------------------------------------------------------------

\* C13: when os.stat fails for a file during a capture, the file is left out
\* of the snapshot and the capture returns the other files; no error reaches
\* the caller of the capture (here the constructor, which makes the first
\* capture of every root).
C13_StatFailureIsSkipped == pc # "raised"

\* C14: the poll loop of a constructed Watcher runs forever: whatever fails
\* in a cycle (os.stat for a file, a root, a callback), the worker thread
\* never terminates and a next cycle follows.
C14_WorkerNeverTerminates == pc # "dead"

\* ------------------------------------------------------------------------
\* The chain of snapshots
\* ------------------------------------------------------------------------

\* the step is a call of diff()
DiffStep == clock' # clock

\* the events of every root are those of its own pair of snapshots: the
\* saved one of that root and the captured one of that root
PairedByRoot ==
    \A i \in RootIndex :
        /\ PathsOf(EventsOf(i), "created") = DOMAIN CurrentOf(i) \ DOMAIN SavedOf(i)
        /\ PathsOf(EventsOf(i), "removed") = DOMAIN SavedOf(i) \ DOMAIN CurrentOf(i)
        /\ PathsOf(EventsOf(i), "updated") \subseteq DOMAIN SavedOf(i) \cap DOMAIN CurrentOf(i)

\* C15: for every root, the previous snapshot a diff cycle compares with is
\* the snapshot the cycle before captured for that root (for the first cycle
\* the capture of the constructor); when diff returns, saved_state holds for
\* every root the snapshot captured in this call; a root's capture is
\* compared with the snapshot saved for the same root.
C15_SnapshotChain ==
    [][DiffStep =>
          /\ Called => last'.prev = last.cur
          /\ ~Called /\ seen = fs => last'.prev = CaptureAll
          /\ saved_state' = last'.cur
          /\ last'.cur = CaptureAll
          /\ PairedByRoot']_vars

\* the second cycle of a watcher of two roots whose snapshots differ, both
\* cycles having found changes
C15_Witness ==
    /\ Called
    /\ last.now = 1
    /\ Len(roots) = 2
    /\ last.prev[roots[1]] # last.prev[roots[2]]
    /\ last.cur[roots[1]] # last.cur[roots[2]]
    /\ last.prev # last.cur
    /\ last.before # <<>>
    /\ saved_state = last.cur

\* ------------------------------------------------------------------------
\* The events of one cycle
\* ------------------------------------------------------------------------

\* C16: in one diff cycle at most one event is emitted for a path, over all
\* the roots together, also when a root lies inside another: no path is
\* reported twice.
C16_OneEventPerPath ==
    Called =>
        \A j, k \in 1..Len(last.changes) :
            last.changes[j].abspath = last.changes[k].abspath => j = k

\* C17: every event diff returns, and so every event the poll loop puts on
\* the queue, has a field 'timestamp' holding the time taken once in that
\* call of diff.
C17_EventsCarryTimestamp ==
    /\ Called =>
           \A j \in 1..Len(last.changes) :
               /\ "timestamp" \in DOMAIN last.changes[j]
               /\ last.changes[j].timestamp = last.now
    /\ \A j \in 1..Len(event_queue) : "timestamp" \in DOMAIN event_queue[j]

\* ------------------------------------------------------------------------
\* get_changes
\* ------------------------------------------------------------------------

\* history_size of a Watcher constructed without one
DefaultHistorySize == 100

\* the notifier get_changes is called with
Notifier == "notifier"

\* the delay arguments of get_changes tried, in seconds: another value than
\* the default, and the default
DelayArgs == {1, MonitorDelay}

\* the state after get_changes('/r', ...) constructed its Watcher(roots) and
\* before the first pass of its loop
InitGetChanges ==
    /\ dirs = AllDirs
    /\ worker = IdleWorker
    /\ caller = IdleCaller
    /\ fs \in {d \in WatchedDisks : \A f \in DOMAIN d : d[f] = FirstMeta}
    /\ roots = <<<<Sep, "r">>>>
    /\ history_size = DefaultHistorySize
    /\ ignore_patterns = {}
    /\ file_extensions = {}
    /\ max_depth = None
    /\ saved_state = Baseline
    /\ change_history = <<>>
    /\ handlers = ConstructorHandlers(None)
    /\ event_queue = <<>>
    /\ clock = 0
    /\ pc = "running"
    /\ seen = fs
    /\ last = NoCall
    /\ dispatched = <<>>
    /\ stats = NoStats
    /\ emitted = NoRecord
    /\ \E delay \in DelayArgs, create_log_file \in BOOLEAN,
          notifier \in {None, Some(Notifier)} :
           get_changes = [pc |-> "running", delay |-> delay,
                          create_log_file |-> create_log_file,
                          notifier |-> notifier, printed |-> <<>>, log |-> <<>>,
                          notified |-> <<>>, slept |-> None]

\* the text get_changes prints and logs for a change: it reads the fields
\* timestamp, abspath and change
LineOf(change) == <<change.timestamp, change.abspath, change.change>>

\* one pass of the inner loop of get_changes with a change on the queue:
\* get_nowait, then the print, which reads change['timestamp']: a KeyError
\* when the change has no such key, which only "except Empty" could catch,
\* so that it leaves get_changes; else the log line and the notifier
GetChangesTake ==
    /\ get_changes.pc = "running"
    /\ event_queue # <<>>
    /\ LET change == Head(event_queue)
       IN  /\ event_queue' = Tail(event_queue)
           /\ get_changes' =
                  IF "timestamp" \notin DOMAIN change
                  THEN [get_changes EXCEPT !.pc = "raised"]
                  ELSE [get_changes EXCEPT
                           !.printed = Append(@, LineOf(change)),
                           !.log = IF get_changes.create_log_file
                                   THEN Append(@, LineOf(change)) ELSE @,
                           !.notified = IF get_changes.notifier # None
                                        THEN Append(@, change) ELSE @]
    /\ stats' = NoStats
    /\ UNCHANGED <<fs, dirs, config, saved_state, change_history, handlers,
                   clock, pc, seen, last, dispatched, emitted, worker,
                   caller>>

\* the pass of the inner loop of get_changes that finds the queue empty:
\* get_nowait raises Empty, which is caught, and get_changes sleeps for its
\* delay before it looks at the queue again
GetChangesSleep ==
    /\ get_changes.pc = "running"
    /\ event_queue = <<>>
    /\ get_changes.slept # Some(get_changes.delay)
    /\ get_changes' = [get_changes EXCEPT !.slept = Some(get_changes.delay)]
    /\ stats' = NoStats
    /\ UNCHANGED <<fs, dirs, config, saved_state, change_history, handlers,
                   event_queue, clock, pc, seen, last, dispatched, emitted,
                   worker, caller>>

NextGetChanges ==
    \/ \E f \in WatchedFiles : WriteFile(f, FirstMeta)
    \/ \E f \in WatchedFiles : DeleteFile(f)
    \/ Poll
    \/ PollRaises
    \/ GetChangesTake
    \/ GetChangesSleep

SpecGetChanges == InitGetChanges /\ [][NextGetChanges]_vars

\* C18: for every change the watcher of get_changes detects, get_changes
\* prints a line, appends a line to the log when create_log_file is true and
\* calls the notifier when one is given; and it keeps running, so that later
\* changes are processed as well.
C18_GetChangesHandlesEveryChange == get_changes.pc # "raised"

\* C24: the delay argument of get_changes is the polling interval of the
\* Watcher it constructs: whenever the poll loop of that Watcher has slept
\* after a cycle, it slept for the delay get_changes was called with.
C24_DelayIsPollInterval ==
    worker.slept # None => ValueOf(worker.slept) = get_changes.delay

\* ------------------------------------------------------------------------
\* Roots that are missing
\* ------------------------------------------------------------------------

\* the files below the roots /r/x and /r/r
FileY == [dir |-> <<DirR, DirX, DirY>>, name |-> ATxt]

FileR == [dir |-> <<DirR, DirR>>, name |-> ATxt]

RootFiles == {FileB, FileY, FileR}

\* the state after Watcher(['/r/x', '/r/r']) or Watcher(['/r/x', '/q'])
\* returned; there never is a directory /q
InitRoots ==
    /\ dirs = AllDirs
    /\ worker = IdleWorker
    /\ caller = IdleCaller
    /\ fs \in UNION {[S -> {FirstMeta}] : S \in SUBSET RootFiles}
    /\ roots \in {<<<<Sep, "r", Sep, "x">>, <<Sep, "r", Sep, "r">>>>,
                  <<<<Sep, "r", Sep, "x">>, <<Sep, "q">>>>}
    /\ history_size = 2
    /\ ignore_patterns = {}
    /\ file_extensions = {}
    /\ max_depth = None
    /\ saved_state = Baseline
    /\ change_history = <<>>
    /\ handlers = ConstructorHandlers(None)
    /\ event_queue = <<>>
    /\ clock = 0
    /\ pc = "running"
    /\ seen = fs
    /\ last = NoCall
    /\ dispatched = <<>>
    /\ stats = NoStats
    /\ emitted = NoRecord
    /\ get_changes = NotCalled

\* the directory a root names is removed with all that is in it
RemoveRoot(i) ==
    /\ clock < MaxClock
    /\ Components(roots[i]) \in dirs
    /\ dirs' = {d \in dirs : ~IsPrefix(Components(roots[i]), d)}
    /\ fs' = [f \in {g \in DOMAIN fs : ~IsPrefix(Components(roots[i]), g.dir)} |-> fs[f]]
    /\ stats' = NoStats
    /\ UNCHANGED <<config, saved_state, change_history, handlers,
                   event_queue, clock, pc, seen, last, dispatched, emitted,
                   get_changes, worker, caller>>

NextRoots ==
    \/ \E f \in RootFiles : WriteFile(f, FirstMeta)
    \/ \E f \in RootFiles : DeleteFile(f)
    \/ \E i \in RootIndex : RemoveRoot(i)
    \/ Poll
    \/ PollRaises
    \/ UserDiff

SpecRoots == InitRoots /\ [][NextRoots]_vars

\* the i-th root names no directory
Missing(i) == Components(roots[i]) \notin dirs

\* the last diff found the i-th root missing: its capture is empty and its
\* events are one 'removed' event per file of the saved snapshot, with the
\* saved record
ReportedAsRemoved(i) ==
    /\ DOMAIN CurrentOf(i) = {}
    /\ Len(EventsOf(i)) = Cardinality(DOMAIN SavedOf(i))
    /\ \A k \in DOMAIN SavedOf(i) :
           \E j \in 1..Len(EventsOf(i)) :
               /\ EventsOf(i)[j].change = "removed"
               /\ Carries(EventsOf(i)[j], SavedOf(i)[k])

\* C19: a root that is missing when the roots are captured gives an empty
\* snapshot and no error: the constructor returns, and a diff reports every
\* file known of that root as 'removed', with its last known record, while
\* the other roots are diffed as ever.
C19_MissingRootIsEmpty ==
    [][/\ ~Called => \A i \in RootIndex :
                         Components(roots[i]) \notin AllDirs => DOMAIN saved_state[roots[i]] = {}
       /\ DiffStep =>
              /\ \A i \in RootIndex : Missing(i) => ReportedAsRemoved(i)'
              /\ PairedByRoot']_vars

\* a diff that found a root removed that had two files, and a file created
\* below the other root
C19_Witness ==
    /\ Called
    /\ Len(EventsOf(1)) = 2
    /\ DOMAIN CurrentOf(1) = {}
    /\ Missing(1)
    /\ \A j \in 1..2 : EventsOf(1)[j].change = "removed"
    /\ PathsOf(EventsOf(2), "created") # {}

\* ------------------------------------------------------------------------
\* The history as a queue
\* ------------------------------------------------------------------------

\* a record of the events returned is kept from the construction on
Recording == [on |-> TRUE, events |-> <<>>]

\* the state after Watcher('/r', history_size=h) returned, h from 0 to 2
InitHistory ==
    /\ dirs = AllDirs
    /\ worker = IdleWorker
    /\ caller = IdleCaller
    /\ fs \in WatchedDisks
    /\ roots = <<<<Sep, "r">>>>
    /\ history_size \in 0..2
    /\ ignore_patterns = {}
    /\ file_extensions = {}
    /\ max_depth = None
    /\ saved_state = Baseline
    /\ change_history = <<>>
    /\ handlers = ConstructorHandlers(None)
    /\ event_queue = <<>>
    /\ clock = 0
    /\ pc = "running"
    /\ seen = fs
    /\ last = NoCall
    /\ dispatched = <<>>
    /\ stats = NoStats
    /\ emitted = Recording
    /\ get_changes = NotCalled

NextHistory ==
    \/ \E f \in WatchedFiles : \E meta \in WriteMeta(f) : WriteFile(f, meta)
    \/ \E f \in WatchedFiles : DeleteFile(f)
    \/ Poll
    \/ PollRaises
    \/ UserDiff

SpecHistory == InitHistory /\ [][NextHistory]_vars

\* the last n elements of the sequence s, or all of s when it has fewer
LastOf(s, n) ==
    IF Len(s) <= n THEN s ELSE SubSeq(s, Len(s) - n + 1, Len(s))

\* the entry of the history is the event with the timestamp now
CopyOf(entry, event, now) ==
    /\ DOMAIN entry = DOMAIN event \cup {"timestamp"}
    /\ \A key \in DOMAIN event : entry[key] = event[key]
    /\ entry.timestamp = now

\* C20: the history is a first-in first-out buffer: after diff calls that
\* returned n events in all, it holds the last min(n, history_size) of them,
\* oldest first, each a copy of the event returned with the timestamp of its
\* call of diff.
C20_HistoryIsFifo ==
    emitted.on =>
        /\ change_history = LastOf(emitted.events, history_size)
        /\ Called =>
               LET kept == LastOf(last.changes, history_size)
               IN  \A j \in 1..Len(kept) :
                       CopyOf(change_history[Len(change_history) - Len(kept) + j],
                              kept[j], last.now)

\* more events were returned than the history can hold, and the history
\* holds events of two calls of diff
C20_Witness ==
    /\ emitted.on
    /\ history_size = 2
    /\ Len(emitted.events) > 2
    /\ Len(change_history) = 2
    /\ change_history[1].timestamp # change_history[2].timestamp

\* the paths and kinds of a sequence of events, in order
PathsAndKinds(events) ==
    [i \in 1..Len(events) |-> <<events[i].abspath, events[i].change>>]

\* C26: every change that enters the history is also put on event_queue:
\* at the end of any cycle or call of diff(), the events enqueued so far and
\* the events ever appended to the history have the same paths and kinds in
\* the same order, also when diff() is called directly by the user.
C26_HistoryEventsAreEnqueued ==
    PathsAndKinds(event_queue) = PathsAndKinds(emitted.events)

\* the event is about file f
About(event, f) == Components(event.abspath) = Append(f.dir, f.name)

\* the files the last diff() reported as created
ReportedCreated ==
    {f \in AllFiles : \E j \in 1..Len(last.changes) :
        last.changes[j].change = "created" /\ About(last.changes[j], f)}

\* C27: the snapshot the constructor takes is the baseline. No diff reports
\* as 'created' a file that was on the disk at the capture before it - for
\* the first diff, at construction: a file that exists then is reported
\* 'created' only after a capture from which it was absent - and the first
\* diff after construction, the disk being as it was then, reports nothing.
C27_ConstructorSnapshotIsBaseline ==
    Called =>
        /\ ReportedCreated \cap DOMAIN last.prev_disk = {}
        /\ last.now = 0 /\ last.disk = last.prev_disk => last.changes = <<>>

\* the first diff after construction, over a disk that held a file at
\* construction and has gained another since: only the new one is reported
C27_Witness ==
    /\ Called
    /\ last.now = 0
    /\ DOMAIN last.prev_disk # {}
    /\ ReportedCreated # {}
    /\ DOMAIN last.prev_disk \subseteq DOMAIN last.disk

-----------------------------------------------------------------------------
\* get_stats() on the user's thread while the worker updates the history.
\* The two threads share change_history with no lock; the interpreter may
\* switch threads between any two steps below.

\* the kinds get_stats counts, in the order of its list
StatKinds == <<"created", "updated", "removed">>

\* the state after Watcher(...) returned, for one root
InitStats ==
    /\ dirs = AllDirs
    /\ worker = IdleWorker
    /\ caller = IdleCaller
    /\ fs \in {d \in WatchedDisks : \A p \in DOMAIN d : d[p] = FirstMeta}
    /\ roots = <<<<Sep, "r">>>>
    /\ history_size \in 1..2
    /\ ignore_patterns = {}
    /\ file_extensions = {}
    /\ max_depth = None
    /\ saved_state = Baseline
    /\ change_history = <<>>
    /\ handlers = ConstructorHandlers(None)
    /\ event_queue = <<>>
    /\ clock = 0
    /\ pc = "running"
    /\ seen = fs
    /\ last = NoCall
    /\ dispatched = <<>>
    /\ stats = NoStats
    /\ emitted = NoRecord
    /\ get_changes = NotCalled

\* the histories a running get_stats() call could have read: the call's
\* record of them grows with every state the worker gives the history
Watch(thread, history) ==
    IF thread.pc \in {"check", "count"}
    THEN [thread EXCEPT !.frame.during = @ \cup {history}]
    ELSE thread

\* the worker's diff() up to the replacement of the snapshots: the changes
\* are computed and remain to be put into the history
WorkerDiff ==
    /\ pc = "running"
    /\ worker.pc = "idle"
    /\ clock < MaxClock
    /\ LET current_states == CaptureAll
       IN  \E results \in DiffRoots(1, saved_state, current_states) :
               /\ saved_state' = current_states
               /\ worker' = [worker EXCEPT !.pc = "append",
                                !.frame = [all_changes |-> Flatten(results),
                                           now |-> clock, k |-> 1]]
               /\ last' = [by |-> "poll", prev |-> saved_state,
                           cur |-> current_states, results |-> results,
                           changes |-> Flatten(results), now |-> clock,
                           before |-> change_history, disk |-> fs,
                           prev_disk |-> seen]
    /\ clock' = clock + 1
    /\ seen' = fs
    /\ stats' = NoStats
    /\ UNCHANGED <<fs, dirs, config, change_history, handlers, event_queue, pc,
                   dispatched, emitted, get_changes, caller>>

\* the history loop of diff(), first half of an iteration: the copy of the
\* change, stamped, is appended
WorkerAppend ==
    /\ worker.pc = "append"
    /\ worker.frame.k <= Len(worker.frame.all_changes)
    /\ change_history' = Append(change_history,
            WithTimestamp(worker.frame.all_changes[worker.frame.k],
                          worker.frame.now))
    /\ worker' = [worker EXCEPT !.pc = "trim"]
    /\ caller' = Watch(caller, change_history')
    /\ UNCHANGED <<fs, dirs, config, saved_state, handlers, event_queue, clock,
                   pc, seen, last, dispatched, stats, emitted, get_changes>>

\* the history loop of diff(), second half of an iteration: the oldest
\* entry is popped when the history is longer than history_size
WorkerTrim ==
    /\ worker.pc = "trim"
    /\ change_history' = IF Len(change_history) > history_size
                         THEN Tail(change_history) ELSE change_history
    /\ worker' = [worker EXCEPT !.pc = "append", !.frame.k = @ + 1]
    /\ caller' = Watch(caller, change_history')
    /\ UNCHANGED <<fs, dirs, config, saved_state, handlers, event_queue, clock,
                   pc, seen, last, dispatched, stats, emitted, get_changes>>

\* the rest of the worker's cycle once diff() returned: the puts on the
\* queue, the callbacks, the sleep
WorkerDispatch ==
    /\ worker.pc = "append"
    /\ worker.frame.k > Len(worker.frame.all_changes)
    /\ event_queue' = event_queue \o worker.frame.all_changes
    /\ dispatched' = Dispatch(worker.frame.all_changes)
    /\ worker' = [pc |-> "idle", slept |-> Some(MonitorDelay), frame |-> <<>>]
    /\ UNCHANGED <<fs, dirs, config, saved_state, change_history, handlers,
                   clock, pc, seen, last, stats, emitted, get_changes, caller>>

\* the user calls get_stats(); the frame records, next to the locals of the
\* call and the value it returns, the histories the call could read and the
\* most entries one of its counts went through
GetStatsCall ==
    /\ caller.pc \in {"idle", "done"}
    /\ caller' = [pc |-> "check",
                  frame |-> [t |-> 1, i |-> 1, acc |-> 0, counts |-> <<>>,
                             visited |-> 0, during |-> {change_history},
                             result |-> NoStats]]
    /\ stats' = NoStats
    /\ UNCHANGED <<fs, dirs, config, saved_state, change_history, handlers,
                   event_queue, clock, pc, seen, last, dispatched, emitted,
                   get_changes, worker>>

\* get_stats(): the test for an empty history
GetStatsCheck ==
    /\ caller.pc = "check"
    /\ IF change_history = <<>>
       THEN /\ stats' = [created |-> 0, updated |-> 0, removed |-> 0]
            /\ caller' = [caller EXCEPT !.pc = "done", !.frame.result = stats']
       ELSE /\ stats' = stats
            /\ caller' = [caller EXCEPT !.pc = "count"]
    /\ UNCHANGED <<fs, dirs, config, saved_state, change_history, handlers,
                   event_queue, clock, pc, seen, last, dispatched, emitted,
                   get_changes, worker>>

\* get_stats(): one step of the iterator of one of the three sums over the
\* history: the entry at the iterator's index is counted, or the index is
\* past the end and the sum is complete
GetStatsCount ==
    /\ caller.pc = "count"
    /\ LET f == caller.frame
       IN  IF f.i <= Len(change_history)
           THEN /\ caller' = [caller EXCEPT
                       !.frame.acc = IF change_history[f.i].change = StatKinds[f.t]
                                     THEN @ + 1 ELSE @,
                       !.frame.i = @ + 1,
                       !.frame.visited = IF f.i > @ THEN f.i ELSE @]
                /\ stats' = stats
           ELSE LET counts == Append(f.counts, f.acc)
                IN  IF f.t < Len(StatKinds)
                    THEN /\ caller' = [caller EXCEPT !.frame.counts = counts,
                                          !.frame.t = @ + 1, !.frame.i = 1,
                                          !.frame.acc = 0]
                         /\ stats' = stats
                    ELSE /\ stats' = [created |-> counts[1],
                                      updated |-> counts[2],
                                      removed |-> counts[3]]
                         /\ caller' = [caller EXCEPT !.frame.counts = counts,
                                          !.frame.result = stats',
                                          !.pc = "done"]
    /\ UNCHANGED <<fs, dirs, config, saved_state, change_history, handlers,
                   event_queue, clock, pc, seen, last, dispatched, emitted,
                   get_changes, worker>>

NextStats ==
    \/ \E f \in WatchedFiles : WriteFile(f, FirstMeta)
    \/ \E f \in WatchedFiles : DeleteFile(f)
    \/ WorkerDiff
    \/ WorkerAppend
    \/ WorkerTrim
    \/ WorkerDispatch
    \/ GetStatsCall
    \/ GetStatsCheck
    \/ GetStatsCount

SpecStats == InitStats /\ [][NextStats]_vars

\* C21: a get_stats() call made while the worker is in the middle of a diff
\* never goes through more than history_size entries of the history, and
\* the three counts it returns are those of one single state the history
\* had during the call
C21_StatsAreOfOneState ==
    caller.pc = "done" =>
        /\ caller.frame.visited <= history_size
        /\ \E history \in caller.frame.during :
               caller.frame.result = Stats(history)

-----------------------------------------------------------------------------
\* diff() called by the user while the poll loop runs. Both threads read and
\* replace self.saved_state with no lock; the interpreter may switch threads
\* between any two steps below. The disk starts empty and only gains files.

\* the state after Watcher('/r') returned, over an empty disk
InitConcurrent ==
    /\ dirs = AllDirs
    /\ worker = IdleWorker
    /\ caller = IdleCaller
    /\ fs = Empty
    /\ roots = <<<<Sep, "r">>>>
    /\ history_size = MaxClock * Cardinality(WatchedFiles)
    /\ ignore_patterns = {}
    /\ file_extensions = {}
    /\ max_depth = None
    /\ saved_state = Baseline
    /\ change_history = <<>>
    /\ handlers = ConstructorHandlers(None)
    /\ event_queue = <<>>
    /\ clock = 0
    /\ pc = "running"
    /\ seen = fs
    /\ last = NoCall
    /\ dispatched = <<>>
    /\ stats = NoStats
    /\ emitted = Recording
    /\ get_changes = NotCalled

\* the two threads that may run diff(): the poll loop and the user
Threads == {"poll", "user"}

ThreadOf(by) == IF by = "poll" THEN worker ELSE caller

\* thread by goes on to state next; the other thread stays where it is
Step(by, next) ==
    IF by = "poll" THEN worker' = next /\ caller' = caller
    ELSE caller' = next /\ worker' = worker

\* diff(), its first statements: the capture of the roots into the local
\* current_states, and now
DiffCapture(by) ==
    /\ pc = "running"
    /\ ThreadOf(by).pc = "idle"
    /\ clock < MaxClock
    /\ Step(by, [ThreadOf(by) EXCEPT !.pc = "captured",
                    !.frame = [current_states |-> CaptureAll, now |-> clock]])
    /\ clock' = clock + 1
    /\ UNCHANGED <<fs, dirs, config, saved_state, change_history, handlers,
                   event_queue, pc, seen, last, dispatched, stats, emitted,
                   get_changes>>

\* diff(), in the loop over the roots: saved_state = self.saved_state[root]
DiffRead(by) ==
    /\ ThreadOf(by).pc = "captured"
    /\ Step(by, [ThreadOf(by) EXCEPT !.pc = "read",
                    !.frame = [current_states |-> @.current_states,
                               now |-> @.now, saved_state |-> saved_state]])
    /\ UNCHANGED <<fs, dirs, config, saved_state, change_history, handlers,
                   event_queue, clock, pc, seen, last, dispatched, stats,
                   emitted, get_changes>>

\* diff(), the rest of the loop over the roots: the comparison of the two
\* locals and self.saved_state[root] = current_state; the record of the
\* call tells when the stored snapshot was captured (now) and when the one
\* it replaced was (held; -1 for the constructor's)
DiffStore(by) ==
    /\ ThreadOf(by).pc = "read"
    /\ LET f == ThreadOf(by).frame
       IN  \E results \in DiffRoots(1, f.saved_state, f.current_states) :
               /\ saved_state' = f.current_states
               /\ Step(by, [ThreadOf(by) EXCEPT !.pc = "stored",
                               !.frame = [all_changes |-> Flatten(results),
                                          now |-> f.now]])
               /\ last' = [by |-> by, now |-> f.now,
                           held |-> IF last.by = "none" THEN -1 ELSE last.now,
                           changes |-> Flatten(results)]
    /\ UNCHANGED <<fs, dirs, config, change_history, handlers, event_queue,
                   clock, pc, seen, dispatched, stats, emitted, get_changes>>

\* diff(), the history loop and the return; in the poll loop, then the puts
\* on the queue, the callbacks and the sleep
DiffReturn(by) ==
    /\ ThreadOf(by).pc = "stored"
    /\ LET f == ThreadOf(by).frame
       IN  /\ change_history' = UpdateHistory(change_history, f.all_changes, f.now)
           /\ emitted' = Record(emitted, f.all_changes, f.now)
           /\ IF by = "poll"
              THEN /\ event_queue' = event_queue \o f.all_changes
                   /\ dispatched' = Dispatch(f.all_changes)
                   /\ worker' = [pc |-> "idle", slept |-> Some(MonitorDelay),
                                 frame |-> <<>>]
                   /\ caller' = caller
              ELSE /\ event_queue' = event_queue
                   /\ dispatched' = dispatched
                   /\ caller' = IdleCaller
                   /\ worker' = worker
    /\ UNCHANGED <<fs, dirs, config, saved_state, handlers, clock, pc, seen,
                   last, stats, get_changes>>

\* a file that is not on the disk is created
CreateFile(f) == f \notin DOMAIN fs /\ WriteFile(f, FirstMeta)

NextConcurrent ==
    \/ \E f \in WatchedFiles : CreateFile(f)
    \/ \E by \in Threads : DiffCapture(by)
    \/ \E by \in Threads : DiffRead(by)
    \/ \E by \in Threads : DiffStore(by)
    \/ \E by \in Threads : DiffReturn(by)

SpecConcurrent == InitConcurrent /\ [][NextConcurrent]_vars

\* C25: when the user calls diff() while the poll loop runs, under every
\* interleaving each change of the disk (here: each creation of a file) is
\* reported exactly once over all diff calls together - every reported
\* event is the creation of a file, no file is reported twice, and once both
\* threads are idle and the snapshot is that of the disk every file of the
\* disk has been reported - and the saved snapshot is never replaced by one
\* captured earlier than the one it holds.
C25_EachChangeReportedOnce ==
    LET events == emitted.events
    IN  /\ \A i \in 1..Len(events) : events[i].change = "created"
        /\ \A i, j \in 1..Len(events) :
               events[i].abspath = events[j].abspath => i = j
        /\ worker.pc = "idle" /\ caller.pc = "idle" /\ saved_state = CaptureAll =>
               \A r \in RootSet : \A k \in DOMAIN saved_state[r] :
                   \E i \in 1..Len(events) : events[i].abspath = k
        /\ IF last.by = "none" THEN TRUE ELSE last.now >= last.held

-----------------------------------------------------------------------------
\* The Watcher of filesystem.wrapper.watcher: one root, no filters, no
\* thread. Here saved_state is self.saved_state of that class, one
\* dictionary from path to record. The events diff() returns are the very
\* records of the dictionaries (no copy is made): what is written to an
\* event is written to the record.

\* core.walk(path): the metadata records of all the files under path
Walk(path) ==
    {GetMetadata(Join(RootDirOf(path, SubSeq(f.dir, Len(Components(path)) + 1, Len(f.dir))),
                      f.name), f) :
        f \in {g \in DOMAIN fs : IsPrefix(Components(path), g.dir)}}

\* Watcher.get_state(path): dict([(x["abspath"], x) for x in files])
WrapperGetState(path) ==
    [k \in {x.abspath : x \in Walk(path)} |-> CHOOSE x \in Walk(path) : x.abspath = k]

\* the state after Watcher('/r') returned
InitWrapper ==
    /\ dirs = AllDirs
    /\ worker = IdleWorker
    /\ caller = IdleCaller
    /\ fs \in WatchedDisks
    /\ roots = <<<<Sep, "r">>>>
    /\ history_size = 0
    /\ ignore_patterns = {}
    /\ file_extensions = {}
    /\ max_depth = None
    /\ saved_state = WrapperGetState(roots[1])
    /\ change_history = <<>>
    /\ handlers = ConstructorHandlers(None)
    /\ event_queue = <<>>
    /\ clock = 0
    /\ pc = "running"
    /\ seen = fs
    /\ last = NoCall
    /\ dispatched = <<>>
    /\ stats = NoStats
    /\ emitted = NoRecord
    /\ get_changes = NotCalled

\* record["change"] = kind, on the record itself
Mark(record, kind) ==
    [key \in DOMAIN record \cup {"change"} |-> IF key = "change" THEN kind ELSE record[key]]

\* Watcher.diff() of the wrapper: the events of the changed and the created
\* paths are the records of current_state, marked, and current_state becomes
\* the saved state; the events of the removed paths are the records of the
\* state it replaces
WrapperDiff ==
    /\ clock < MaxClock
    /\ LET current_state == WrapperGetState(roots[1])
           changed == {k \in DOMAIN current_state \cap DOMAIN saved_state :
                          current_state[k].modified # saved_state[k].modified}
           created == DOMAIN current_state \ DOMAIN saved_state
           removed == DOMAIN saved_state \ DOMAIN current_state
       IN  \E u \in Orders(changed), c \in Orders(created), r \in Orders(removed) :
               LET results == [i \in 1..Len(u) |-> Mark(current_state[u[i]], "updated")]
                              \o [i \in 1..Len(c) |-> Mark(current_state[c[i]], "created")]
                              \o [i \in 1..Len(r) |-> Mark(saved_state[r[i]], "removed")]
               IN  /\ saved_state' =
                          [k \in DOMAIN current_state |->
                              IF k \in changed THEN Mark(current_state[k], "updated")
                              ELSE IF k \in created THEN Mark(current_state[k], "created")
                              ELSE current_state[k]]
                   /\ last' = [by |-> "user", changes |-> results, now |-> clock]
    /\ clock' = clock + 1
    /\ seen' = fs
    /\ stats' = NoStats
    /\ UNCHANGED <<fs, dirs, config, change_history, handlers, event_queue, pc,
                   dispatched, emitted, get_changes, worker, caller>>

\* the value a caller writes into an event it received
Scribble == "handled"

\* the caller writes event["change"] = ... on the j-th event the last diff()
\* returned: an 'updated' or 'created' event is the record saved for its
\* path
MutateEvent(j) ==
    /\ Called
    /\ j \in 1..Len(last.changes)
    /\ last.changes[j].change # Scribble
    /\ last' = [last EXCEPT !.changes[j].change = Scribble]
    /\ saved_state' = IF last.changes[j].change = "removed" THEN saved_state
                      ELSE [saved_state EXCEPT ![last.changes[j].abspath].change = Scribble]
    /\ stats' = NoStats
    /\ UNCHANGED <<fs, dirs, config, change_history, handlers, event_queue,
                   clock, pc, seen, dispatched, emitted, get_changes, worker,
                   caller>>

NextWrapper ==
    \/ \E f \in WatchedFiles : \E meta \in WriteMeta(f) : WriteFile(f, meta)
    \/ \E f \in WatchedFiles : DeleteFile(f)
    \/ WrapperDiff
    \/ \E j \in 1..Cardinality(WatchedFiles) : MutateEvent(j)

SpecWrapper == InitWrapper /\ [][NextWrapper]_vars

\* C30: producing events never alters the snapshots, in the wrapper's
\* Watcher as in the other: after any number of diff calls, and whatever a
\* caller writes to the events it received, every record of saved_state is
\* the metadata captured for its path at the last capture and nothing else
\* (no 'change' key, no 'timestamp' key).
C30_SnapshotsHoldOnlyCapturedMetadata ==
    \A k \in DOMAIN saved_state :
        /\ DOMAIN saved_state[k] = {"abspath", "modified", "size"}
        /\ \E f \in DOMAIN seen :
               /\ Components(k) = Append(f.dir, f.name)
               /\ saved_state[k].modified = seen[f].modified
               /\ saved_state[k].size = seen[f].size
====
